---- MODULE Spec2Model ----
(***************************************************************************)
(* A model of src/protocolos.py: text extraction from DOCX/PDF buffers,    *)
(* the "key: value" parser, the {{key}} template filler and the request    *)
(* flow that chains them.                                                  *)
(*                                                                         *)
(* A Python str is a sequence of one-character strings.  A Python dict is  *)
(* a sequence of <<key, value>> pairs with distinct keys, in insertion     *)
(* order (the order dict.items() iterates in).                             *)
(***************************************************************************)
EXTENDS Integers, Sequences, FiniteSets, TLC

VARIABLES
    raw_text,   \* parser: the text handed to parse_key_values
    pairs,      \* parser: the dict parse_key_values returned
    ppc,        \* parser: "typing" | "parsed"
    r_template, \* replacer: the paragraphs handed to _replace_in_paragraphs
    r_frags,    \* replacer: how many fragments were typed into r_template
    r_values,   \* replacer: the dict handed to _replace_in_paragraphs
    r_out,      \* replacer: the paragraphs after the call
    r_values2,  \* replacer: the same pairs inserted in another order
    r_out2,     \* replacer: the paragraphs after the call with r_values2
    rpc,        \* replacer: "edit" | "done" | "compared"
    Document,   \* the module global Document: "loaded", or "None" (line 10)
    PyPDF2,     \* the module global PyPDF2: "loaded", or "None" (line 15)
    template_bytes, \* filler: the buffer handed to fill_template_with_values
    t_items,    \* filler: how many items were put into template_bytes
    values,     \* filler: the dict handed to fill_template_with_values
    filled,     \* filler: the outcome of the call
    refilled,   \* filler: the outcome of the call on the filled buffer
    fpc,        \* filler: "edit" | "filled" | "refilled"
    file_buffer, \* extractor: the buffer handed to extract_text
    b_items,    \* extractor: how many items were put into file_buffer
    extension,  \* extractor: the extension handed to extract_text
    extracted,  \* extractor: the outcome of the call
    xpc,        \* extractor: "edit" | "extracted"
    template_upload,    \* page: the uploaded template, or NoFile
    base_upload,        \* page: the uploaded base document, or NoFile
    template_extension, \* page: line 138
    base_extension,     \* page: line 139
    base_outcome,       \* page: how the call of extract_text ended
    base_text,          \* page: lines 150-159
    fill_calls,         \* page: calls of fill_template_with_values in this run
    fill_outcome,       \* page: how the call of fill_template_with_values ended
    filled_template,    \* page: lines 177-182
    download,           \* page: the file the download button offers
    messages,           \* page: the st.error/warning/info/success shown
    pc                  \* page: where the script run stands

parseVars == <<raw_text, pairs, ppc>>
replVars == <<r_template, r_frags, r_values, r_out, r_values2, r_out2, rpc>>
globalVars == <<Document, PyPDF2>>
fillVars == <<template_bytes, t_items, values, filled, refilled, fpc>>
extractVars == <<file_buffer, b_items, extension, extracted, xpc>>
pageVars ==
    <<template_upload, base_upload, template_extension, base_extension,
      base_outcome, base_text, fill_calls, fill_outcome, filled_template,
      download, messages, pc>>
vars == <<parseVars, replVars, globalVars, fillVars, extractVars, pageVars>>

\* What each specification leaves alone.
outsideParse == <<replVars, globalVars, fillVars, extractVars, pageVars>>
outsideReplace == <<parseVars, globalVars, fillVars, extractVars, pageVars>>
outsideFill == <<parseVars, replVars, PyPDF2, extractVars, pageVars>>
outsideExtract == <<parseVars, replVars, fillVars, pageVars>>
outsidePage ==
    <<parseVars, replVars, globalVars, extractVars,
      template_bytes, t_items, filled, refilled, fpc>>

(***************************************************************************)
(* Bounds of the model.                                                    *)
(***************************************************************************)
MaxTextLen == 6
MaxFrags == 2
MaxKeys == 2
MaxItems == 3

(***************************************************************************)
(* Python str primitives used by the program.                              *)
(***************************************************************************)
NL == "\n"

\* str.strip() with no argument strips whitespace.
IsSpace(c) == c \in {" ", "\t", "\n", "\r"}

RECURSIVE LStrip(_)
LStrip(s) ==
    IF s = <<>> THEN s
    ELSE IF IsSpace(Head(s)) THEN LStrip(Tail(s)) ELSE s

RECURSIVE RStrip(_)
RStrip(s) ==
    IF s = <<>> THEN s
    ELSE IF IsSpace(s[Len(s)]) THEN RStrip(SubSeq(s, 1, Len(s) - 1)) ELSE s

strip(s) == RStrip(LStrip(s))

\* str.splitlines(): a line break ends a line; no empty last line.
RECURSIVE SplitAcc(_, _, _)
SplitAcc(s, cur, acc) ==
    IF s = <<>> THEN (IF cur = <<>> THEN acc ELSE Append(acc, cur))
    ELSE IF Head(s) = NL THEN SplitAcc(Tail(s), <<>>, Append(acc, cur))
    ELSE SplitAcc(Tail(s), Append(cur, Head(s)), acc)

splitlines(s) == SplitAcc(s, <<>>, <<>>)

\* c in s
HasChar(s, c) == \E i \in 1..Len(s) : s[i] = c

\* s.startswith("#")
IsCommentAnywhere(cleaned) == HasChar(cleaned, "#")
startswith_hash(cleaned) == cleaned # <<>> /\ Head(cleaned) = "#"

\* s.split(":", 1) of a string that holds a colon: cut at the first one.
SplitAtLast(s) ==
    LET i == CHOOSE k \in 1..Len(s) :
                 s[k] = ":" /\ \A j \in (k + 1)..Len(s) : s[j] # ":"
    IN  <<SubSeq(s, 1, i - 1), SubSeq(s, i + 1, Len(s))>>
split_colon_1(s) ==
    LET i == CHOOSE k \in 1..Len(s) :
                 s[k] = ":" /\ \A j \in 1..(k - 1) : s[j] # ":"
    IN  <<SubSeq(s, 1, i - 1), SubSeq(s, i + 1, Len(s))>>

(***************************************************************************)
(* dict                                                                    *)
(***************************************************************************)
DictKeys(d) == {d[i][1] : i \in 1..Len(d)}
DictGet(d, k) == d[CHOOSE i \in 1..Len(d) : d[i][1] = k][2]

\* d[k] = v: a new key goes last, an old key keeps its place.
DictSetDefault(d, k, v) ==
    IF k \in DictKeys(d) THEN d ELSE Append(d, <<k, v>>)
DictSet(d, k, v) ==
    IF k \in DictKeys(d)
    THEN [i \in 1..Len(d) |-> IF d[i][1] = k THEN <<k, v>> ELSE d[i]]
    ELSE Append(d, <<k, v>>)

(***************************************************************************)
(* parse_key_values                                                        *)
(***************************************************************************)
\* One pass of the loop body over a line, from the dict built so far.
ParseLine(line, acc) ==
    LET cleaned == strip(line) IN
    IF cleaned = <<>> \/ startswith_hash(cleaned) THEN acc
    ELSE IF ~HasChar(cleaned, ":") THEN acc
    ELSE LET kv    == split_colon_1(cleaned)
             key   == strip(kv[1])
             value == strip(kv[2])
         IN  IF key # <<>> THEN DictSet(acc, key, value) ELSE acc

RECURSIVE ParseLines(_, _)
ParseLines(lines, acc) ==
    IF lines = <<>> THEN acc
    ELSE ParseLines(Tail(lines), ParseLine(Head(lines), acc))

parse_key_values(text) == ParseLines(splitlines(text), <<>>)

(***************************************************************************)
(* The parser's specification: a text is typed, then parsed.               *)
(***************************************************************************)
ParseAlphabet == {"a", ":", "#", " ", NL}

ParseIdle ==
    /\ raw_text = <<>>
    /\ pairs = <<>>
    /\ ppc = "typing"

ReplaceIdle ==
    /\ r_template = <<>>
    /\ r_frags = 0
    /\ r_values = <<>>
    /\ r_out = <<>>
    /\ r_values2 = <<>>
    /\ r_out2 = <<>>
    /\ rpc = "edit"

GlobalsIdle ==
    /\ Document = "loaded"
    /\ PyPDF2 = "loaded"

\* A DOCX buffer: the texts of its body paragraphs, of each section's
\* header and footer paragraphs, and its tables, a table being rows of
\* cells, a cell the texts of its own paragraphs and of the paragraphs of
\* the tables nested in it.
EmptyDocx ==
    [fmt |-> "docx", body |-> <<>>,
     sections |-> <<[header |-> <<>>, footer |-> <<>>]>>,
     tables |-> <<>>]

FillIdle ==
    /\ template_bytes = EmptyDocx
    /\ t_items = 0
    /\ values = <<>>
    /\ filled = [status |-> "none"]
    /\ refilled = [status |-> "none"]
    /\ fpc = "edit"

NoFile == [present |-> FALSE]
NoResult == [status |-> "none"]

PageIdle ==
    /\ template_upload = NoFile
    /\ base_upload = NoFile
    /\ template_extension = <<>>
    /\ base_extension = <<>>
    /\ base_outcome = NoResult
    /\ base_text = <<>>
    /\ fill_calls = 0
    /\ fill_outcome = NoResult
    /\ filled_template = NoResult
    /\ download = NoResult
    /\ messages = {}
    /\ pc = "idle"

ExtractIdle ==
    /\ file_buffer = EmptyDocx
    /\ b_items = 0
    /\ extension = <<>>
    /\ extracted = [status |-> "none"]
    /\ xpc = "edit"

InitParse ==
    /\ ParseIdle
    /\ ReplaceIdle
    /\ GlobalsIdle
    /\ FillIdle
    /\ ExtractIdle
    /\ PageIdle

TypeChar ==
    /\ ppc = "typing"
    /\ Len(raw_text) < MaxTextLen
    /\ \E c \in ParseAlphabet : raw_text' = Append(raw_text, c)
    /\ UNCHANGED <<pairs, ppc, outsideParse>>

Parse ==
    /\ ppc = "typing"
    /\ pairs' = parse_key_values(raw_text)
    /\ ppc' = "parsed"
    /\ UNCHANGED <<raw_text, outsideParse>>

NextParse == TypeChar \/ Parse

SpecParse == InitParse /\ [][NextParse]_vars

(***************************************************************************)
(* What the specification says of the parser, stated on the text itself.   *)
(***************************************************************************)
\* The lines of a text: the stretches between line breaks.
LineStarts(t) == {i \in 1..Len(t) : i = 1 \/ t[i - 1] = NL}
LineEnd(t, i) ==
    CHOOSE j \in (i - 1)..Len(t) :
        /\ \A k \in i..j : t[k] # NL
        /\ j = Len(t) \/ t[j + 1] = NL
LineAt(t, i) == SubSeq(t, i, LineEnd(t, i))

\* s without the whitespace around it.
Trimmed(s) ==
    LET inside == {i \in 1..Len(s) : ~IsSpace(s[i])} IN
    IF inside = {} THEN <<>>
    ELSE SubSeq(s, CHOOSE i \in inside : \A j \in inside : i <= j,
                   CHOOSE i \in inside : \A j \in inside : i >= j)

Colons(s) == {i \in 1..Len(s) : s[i] = ":"}
FirstColon(s) == CHOOSE i \in Colons(s) : \A j \in Colons(s) : i <= j
KeyOfLine(l) == Trimmed(SubSeq(Trimmed(l), 1, FirstColon(Trimmed(l)) - 1))
ValueOfLine(l) ==
    Trimmed(SubSeq(Trimmed(l), FirstColon(Trimmed(l)) + 1, Len(Trimmed(l))))

ValidLine(l) ==
    /\ Trimmed(l) # <<>>
    /\ Trimmed(l)[1] # "#"
    /\ Colons(Trimmed(l)) # {}
    /\ KeyOfLine(l) # <<>>

ValidStarts(t) == {i \in LineStarts(t) : ValidLine(LineAt(t, i))}

\* C1: the keys parse_key_values returns are exactly the keys of the valid
\* lines of the text (non-empty after trimming, not a comment, holding a
\* colon, with a non-empty trimmed key), and every pair it returns is the
\* pair of a valid line; blank, comment, colon-free and empty-key lines
\* contribute nothing.
C1_ExactlyValidPairs ==
    ppc = "parsed" =>
        /\ DictKeys(pairs) = {KeyOfLine(LineAt(raw_text, i)) : i \in ValidStarts(raw_text)}
        /\ \A n \in 1..Len(pairs) :
              \E i \in ValidStarts(raw_text) :
                  pairs[n] = <<KeyOfLine(LineAt(raw_text, i)),
                               ValueOfLine(LineAt(raw_text, i))>>

C1_Witness ==
    /\ ppc = "parsed"
    /\ ValidStarts(raw_text) # {}
    /\ \E i \in LineStarts(raw_text) :
           /\ Trimmed(LineAt(raw_text, i)) # <<>>
           /\ ~ValidLine(LineAt(raw_text, i))
    /\ Len(pairs) = 1

\* C2: an accepted line is cut at its first colon only: when its key is on
\* no other accepted line, the dict maps the trimmed text before the first
\* colon to the trimmed text of everything after it, later colons included.
C2_SplitOnFirstColon ==
    ppc = "parsed" =>
        \A i \in ValidStarts(raw_text) :
            (\A j \in ValidStarts(raw_text) \ {i} :
                 KeyOfLine(LineAt(raw_text, j)) # KeyOfLine(LineAt(raw_text, i)))
            => /\ KeyOfLine(LineAt(raw_text, i)) \in DictKeys(pairs)
               /\ DictGet(pairs, KeyOfLine(LineAt(raw_text, i)))
                      = ValueOfLine(LineAt(raw_text, i))

C2_Witness ==
    /\ ppc = "parsed"
    /\ \E i \in ValidStarts(raw_text) :
           /\ Cardinality(Colons(LineAt(raw_text, i))) >= 2
           /\ HasChar(ValueOfLine(LineAt(raw_text, i)), ":")
           /\ pairs = <<<<KeyOfLine(LineAt(raw_text, i)),
                          ValueOfLine(LineAt(raw_text, i))>>>>

\* C3: a key on several valid lines occurs once in the dict, with the value
\* of the last of those lines in the text.
C3_LastWriteWins ==
    ppc = "parsed" =>
        \A i \in ValidStarts(raw_text) :
            LET k    == KeyOfLine(LineAt(raw_text, i))
                same == {j \in ValidStarts(raw_text) :
                            KeyOfLine(LineAt(raw_text, j)) = k}
                last == CHOOSE j \in same : \A m \in same : m <= j
            IN  /\ Cardinality({n \in 1..Len(pairs) : pairs[n][1] = k}) = 1
                /\ DictGet(pairs, k) = ValueOfLine(LineAt(raw_text, last))

C3_Witness ==
    /\ ppc = "parsed"
    /\ \E i, j \in ValidStarts(raw_text) :
           /\ i < j
           /\ KeyOfLine(LineAt(raw_text, i)) = KeyOfLine(LineAt(raw_text, j))
           /\ ValueOfLine(LineAt(raw_text, i)) # ValueOfLine(LineAt(raw_text, j))
           /\ pairs = <<<<KeyOfLine(LineAt(raw_text, j)),
                          ValueOfLine(LineAt(raw_text, j))>>>>

(***************************************************************************)
(* _replace_in_paragraphs                                                  *)
(***************************************************************************)
\* f"{{{{{key}}}}}": two opening braces, the key, two closing braces.
SingleBraces(key) == <<"{">> \o key \o <<"}">>
Placeholder(key) == <<"{", "{">> \o key \o <<"}", "}">>

\* placeholder in updated
Occurs(s, p) ==
    \E i \in 1..(Len(s) - Len(p) + 1) : SubSeq(s, i, i + Len(p) - 1) = p

\* updated.replace(old, new), old not empty: every occurrence, left to
\* right, none overlapping.
RECURSIVE str_replace(_, _, _)
str_replace(s, old, new) ==
    IF Len(s) < Len(old) THEN s
    ELSE IF SubSeq(s, 1, Len(old)) = old
         THEN new \o str_replace(SubSeq(s, Len(old) + 1, Len(s)), old, new)
         ELSE <<Head(s)>> \o str_replace(Tail(s), old, new)

\* The inner loop's body for one item of values.items().
ApplyKey(updated, item) ==
    LET placeholder == Placeholder(item[1]) IN
    IF Occurs(updated, placeholder)
    THEN str_replace(updated, placeholder, item[2])
    ELSE updated

\* The inner loop: the keys in the dict's insertion order.
RECURSIVE ApplyKeys(_, _)
ApplyKeys(updated, vals) ==
    IF vals = <<>> THEN updated
    ELSE ApplyKeys(ApplyKey(updated, Head(vals)), Tail(vals))

\* A paragraph is its text and the number of times paragraph.text was
\* assigned since the document was loaded.
NewPara(t) == [text |-> t, writes |-> 0]

\* The outer loop's body: the text is assigned only when it changed.
AlwaysAssign(paragraph, vals) ==
    [text |-> ApplyKeys(paragraph.text, vals), writes |-> paragraph.writes + 1]
ReplaceInParagraph(paragraph, vals) ==
    LET original == paragraph.text
        updated  == ApplyKeys(original, vals)
    IN  IF updated # original
        THEN [text |-> updated, writes |-> paragraph.writes + 1]
        ELSE paragraph

replace_in_paragraphs(paragraphs, vals) ==
    [i \in 1..Len(paragraphs) |-> ReplaceInParagraph(paragraphs[i], vals)]

(***************************************************************************)
(* The replacer's specification: paragraphs are typed from fragments and a *)
(* dict is filled, _replace_in_paragraphs runs on them, and it runs again  *)
(* on the same paragraphs with the same pairs inserted in another order.   *)
(***************************************************************************)
Fragments == {<<"{", "{", "a", "}", "}">>, <<"{", "{", "b", "}", "}">>, <<"{">>, <<"}">>}
\* Keys and values the parser can return: trimmed, the key not empty and
\* free of colons.
ReplaceKeys == {<<"a">>, <<"b">>, <<"{", "a">>}
ReplaceValues == {<<>>, <<"b">>, <<"{", "{", "b", "}", "}">>}

\* The dicts holding the pairs of d, in every insertion order.
Reorderings(d) ==
    {q \in [1..Len(d) -> {d[i] : i \in 1..Len(d)}] :
        \A i, j \in 1..Len(d) : i # j => q[i] # q[j]}

InitReplace ==
    /\ ParseIdle
    /\ ReplaceIdle
    /\ GlobalsIdle
    /\ FillIdle
    /\ ExtractIdle
    /\ PageIdle

NewParagraph ==
    /\ rpc = "edit"
    /\ r_frags < MaxFrags
    /\ \E f \in Fragments : r_template' = Append(r_template, NewPara(f))
    /\ r_frags' = r_frags + 1
    /\ UNCHANGED <<r_values, r_out, r_values2, r_out2, rpc, outsideReplace>>

TypeFragment ==
    /\ rpc = "edit"
    /\ r_frags < MaxFrags
    /\ r_template # <<>>
    /\ \E f \in Fragments :
           r_template' = [r_template EXCEPT ![Len(r_template)].text = @ \o f]
    /\ r_frags' = r_frags + 1
    /\ UNCHANGED <<r_values, r_out, r_values2, r_out2, rpc, outsideReplace>>

AddPair ==
    /\ rpc = "edit"
    /\ Len(r_values) < MaxKeys
    /\ \E k \in ReplaceKeys \ DictKeys(r_values), v \in ReplaceValues :
           r_values' = DictSet(r_values, k, v)
    /\ UNCHANGED <<r_template, r_frags, r_out, r_values2, r_out2, rpc, outsideReplace>>

Replace ==
    /\ rpc = "edit"
    /\ r_out' = replace_in_paragraphs(r_template, r_values)
    /\ rpc' = "done"
    /\ UNCHANGED <<r_template, r_frags, r_values, r_values2, r_out2, outsideReplace>>

ReplaceReordered ==
    /\ rpc = "done"
    /\ \E q \in Reorderings(r_values) :
           /\ r_values2' = q
           /\ r_out2' = replace_in_paragraphs(r_template, q)
    /\ rpc' = "compared"
    /\ UNCHANGED <<r_template, r_frags, r_values, r_out, outsideReplace>>

NextReplace == NewParagraph \/ TypeFragment \/ AddPair \/ Replace \/ ReplaceReordered

SpecReplace == InitReplace /\ [][NextReplace]_vars

(***************************************************************************)
(* What the specification says of the replacer.                            *)
(***************************************************************************)
\* The placeholder of a name, as the specification writes it: {{name}}.
Marker(name) == <<"{", "{">> \o name \o <<"}", "}">>
HasSub(s, p) == \E i \in 1..(Len(s) - Len(p) + 1) : \A j \in 1..Len(p) : s[i + j - 1] = p[j]
BraceFree(s) == \A i \in 1..Len(s) : s[i] \notin {"{", "}"}
Names == {<<"a">>, <<"b">>}
\* No placeholder of a key of the dict in the text.
Clean(t, vals) == \A k \in DictKeys(vals) : ~HasSub(t, Marker(k))

C7_Stated ==
    rpc = "compared" =>
        \A i \in 1..Len(r_template) : r_out2[i].text = r_out[i].text

\* C7 as amended: they give the same paragraph text when no key contains a
\* brace and neither resulting text holds a placeholder of a key.
C7_OrderIrrelevantWhenClean ==
    rpc = "compared" =>
        \A i \in 1..Len(r_template) :
            (/\ \A k \in DictKeys(r_values) : BraceFree(k)
             /\ Clean(r_out[i].text, r_values)
             /\ Clean(r_out2[i].text, r_values))
            => r_out2[i].text = r_out[i].text

C7_Witness ==
    /\ rpc = "compared"
    /\ r_values2 # r_values
    /\ \A k \in DictKeys(r_values) : BraceFree(k)
    /\ \E i \in 1..Len(r_template) :
           /\ \A k \in DictKeys(r_values) : HasSub(r_template[i].text, Marker(k))
           /\ Clean(r_out[i].text, r_values)
           /\ Clean(r_out2[i].text, r_values)
           /\ r_out2[i].text = r_out[i].text

(***************************************************************************)
(* fill_template_with_values                                               *)
(***************************************************************************)
\* Document(template_bytes): every paragraph a fresh object.
LoadParas(texts) == [i \in 1..Len(texts) |-> NewPara(texts[i])]
LoadCell(c) == [paragraphs |-> LoadParas(c.paragraphs), nested |-> LoadParas(c.nested)]
LoadRow(row) == [c \in 1..Len(row) |-> LoadCell(row[c])]
LoadTable(table) == [r \in 1..Len(table) |-> LoadRow(table[r])]
LoadDocument(buf) ==
    [body |-> LoadParas(buf.body),
     sections |-> [s \in 1..Len(buf.sections) |->
                      [header |-> LoadParas(buf.sections[s].header),
                       footer |-> LoadParas(buf.sections[s].footer)]],
     tables |-> [t \in 1..Len(buf.tables) |-> LoadTable(buf.tables[t])]]

\* document.save(output): the texts of the paragraphs.
SaveParas(paragraphs) == [i \in 1..Len(paragraphs) |-> paragraphs[i].text]
SaveCell(c) == [paragraphs |-> SaveParas(c.paragraphs), nested |-> SaveParas(c.nested)]
SaveRow(row) == [c \in 1..Len(row) |-> SaveCell(row[c])]
SaveTable(table) == [r \in 1..Len(table) |-> SaveRow(table[r])]
SaveDocument(document) ==
    [fmt |-> "docx",
     body |-> SaveParas(document.body),
     sections |-> [s \in 1..Len(document.sections) |->
                      [header |-> SaveParas(document.sections[s].header),
                       footer |-> SaveParas(document.sections[s].footer)]],
     tables |-> [t \in 1..Len(document.tables) |-> SaveTable(document.tables[t])]]

\* Lines 90-94: every section's header and footer paragraphs.
FillSection(section, vals) ==
    [header |-> replace_in_paragraphs(section.header, vals),
     footer |-> replace_in_paragraphs(section.footer, vals)]

\* Lines 96-99: the paragraphs of every cell of every row of every table of
\* the body; the tables nested in a cell are not visited.
FillCell(cell, vals) ==
    [cell EXCEPT !.paragraphs = replace_in_paragraphs(cell.paragraphs, vals)]
FillRow(row, vals) == [c \in 1..Len(row) |-> FillCell(row[c], vals)]
FillTable(table, vals) == [r \in 1..Len(table) |-> FillRow(table[r], vals)]

\* Lines 88-99 on the loaded document.
FillSkippingFooters(document, vals) ==
    [body |-> replace_in_paragraphs(document.body, vals),
     sections |-> [s \in 1..Len(document.sections) |->
                      [document.sections[s] EXCEPT
                          !.header = replace_in_paragraphs(@, vals)]],
     tables |-> [t \in 1..Len(document.tables) |-> FillTable(document.tables[t], vals)]]
FillDocument(document, vals) ==
    [body |-> replace_in_paragraphs(document.body, vals),
     sections |-> [s \in 1..Len(document.sections) |->
                      FillSection(document.sections[s], vals)],
     tables |-> [t \in 1..Len(document.tables) |-> FillTable(document.tables[t], vals)]]

\* The call's outcome: the new buffer, or the exception raised.
fill_template_with_values(buf, vals, Doc) ==
    IF Doc = "None" THEN [status |-> "ImportError"]
    ELSE IF buf.fmt # "docx" THEN [status |-> "ReadError"]
    ELSE [status |-> "ok",
          output |-> SaveDocument(FillDocument(LoadDocument(buf), vals))]

(***************************************************************************)
(* Building a DOCX buffer, one item at a time.                             *)
(***************************************************************************)
NewCell(t) == [paragraphs |-> <<t>>, nested |-> <<>>]
LastOf(seq) == seq[Len(seq)]

WithBody(buf, t) == [buf EXCEPT !.body = Append(@, t)]
WithSection(buf) ==
    [buf EXCEPT !.sections = Append(@, [header |-> <<>>, footer |-> <<>>])]
WithHeader(buf, t) ==
    [buf EXCEPT !.sections[Len(buf.sections)].header = Append(@, t)]
WithFooter(buf, t) ==
    [buf EXCEPT !.sections[Len(buf.sections)].footer = Append(@, t)]
WithTable(buf, t) == [buf EXCEPT !.tables = Append(@, <<<<NewCell(t)>>>>)]
WithRow(buf, t) ==
    [buf EXCEPT !.tables[Len(buf.tables)] = Append(@, <<NewCell(t)>>)]
WithCell(buf, t) ==
    [buf EXCEPT !.tables[Len(buf.tables)][Len(LastOf(buf.tables))] =
                    Append(@, NewCell(t))]
WithCellParagraph(buf, t) ==
    [buf EXCEPT !.tables[Len(buf.tables)][Len(LastOf(buf.tables))]
                    [Len(LastOf(LastOf(buf.tables)))].paragraphs = Append(@, t)]
WithNested(buf, t) ==
    [buf EXCEPT !.tables[Len(buf.tables)][Len(LastOf(buf.tables))]
                    [Len(LastOf(LastOf(buf.tables)))].nested = Append(@, t)]

(***************************************************************************)
(* The filler's specification: a template and a dict are put together,     *)
(* fill_template_with_values runs, and runs again on what it returned.     *)
(***************************************************************************)
TemplateTexts ==
    {<<"{", "{", "a", "}", "}">>, <<"{", "{", "b", "}", "}">>,
     <<"{", "{", "{", "a", "}", "}">>}
\* Dicts the parser can return, in their insertion order.
TemplateDicts ==
    {<<<< <<"a">>, <<"b">> >>>>,
     <<<< <<"a">>, <<"{", "{", "b", "}", "}">> >>, << <<"b">>, <<"b">> >>>>,
     <<<< <<"b">>, <<"b">> >>, << <<"a">>, <<"{", "{", "b", "}", "}">> >>>>,
     <<<< <<"b">>, <<"a">> >>, << <<"a">>, <<"b">> >>>>,
     <<<< <<"{", "a">>, <<"b">> >>, << <<"a">>, <<>> >>>>}

InitFill ==
    /\ ParseIdle
    /\ ReplaceIdle
    /\ PyPDF2 = "loaded"
    /\ Document \in {"loaded", "None"}
    /\ FillIdle
    /\ ExtractIdle
    /\ PageIdle

Editing == fpc = "edit" /\ t_items < MaxItems
Built(buf) ==
    /\ template_bytes' = buf
    /\ t_items' = t_items + 1
    /\ UNCHANGED <<values, filled, refilled, fpc, Document, outsideFill>>

AddBodyParagraph ==
    Editing /\ \E t \in TemplateTexts : Built(WithBody(template_bytes, t))
AddSection ==
    Editing /\ Built(WithSection(template_bytes))
AddHeaderParagraph ==
    Editing /\ \E t \in TemplateTexts : Built(WithHeader(template_bytes, t))
AddFooterParagraph ==
    Editing /\ \E t \in TemplateTexts : Built(WithFooter(template_bytes, t))
AddTable ==
    Editing /\ \E t \in TemplateTexts : Built(WithTable(template_bytes, t))
AddRow ==
    /\ Editing /\ template_bytes.tables # <<>>
    /\ \E t \in TemplateTexts : Built(WithRow(template_bytes, t))
AddCell ==
    /\ Editing /\ template_bytes.tables # <<>>
    /\ \E t \in TemplateTexts : Built(WithCell(template_bytes, t))
AddCellParagraph ==
    /\ Editing /\ template_bytes.tables # <<>>
    /\ \E t \in TemplateTexts : Built(WithCellParagraph(template_bytes, t))
AddNestedParagraph ==
    /\ Editing /\ template_bytes.tables # <<>>
    /\ \E t \in TemplateTexts : Built(WithNested(template_bytes, t))

Fill ==
    /\ fpc = "edit"
    /\ \E d \in TemplateDicts :
           /\ values' = d
           /\ filled' = fill_template_with_values(template_bytes, d, Document)
    /\ fpc' = "filled"
    /\ UNCHANGED <<template_bytes, t_items, refilled, Document, outsideFill>>

FillAgain ==
    /\ fpc = "filled"
    /\ filled.status = "ok"
    /\ refilled' = fill_template_with_values(filled.output, values, Document)
    /\ fpc' = "refilled"
    /\ UNCHANGED <<template_bytes, t_items, values, filled, Document, outsideFill>>

NextFill ==
    \/ AddBodyParagraph \/ AddSection \/ AddHeaderParagraph \/ AddFooterParagraph
    \/ AddTable \/ AddRow \/ AddCell \/ AddCellParagraph \/ AddNestedParagraph
    \/ Fill \/ FillAgain

SpecFill == InitFill /\ [][NextFill]_vars

(***************************************************************************)
(* What the specification says of the filler.                              *)
(***************************************************************************)
\* The text with every occurrence of the placeholder of a key of the dict,
\* read left to right, replaced by the key's value, and nothing else changed.
RECURSIVE Substituted(_, _)
Substituted(t, vals) ==
    IF t = <<>> THEN t
    ELSE LET hits == {k \in DictKeys(vals) :
                         /\ Len(Marker(k)) <= Len(t)
                         /\ SubSeq(t, 1, Len(Marker(k))) = Marker(k)}
         IN  IF hits = {} THEN <<Head(t)>> \o Substituted(Tail(t), vals)
             ELSE LET k == CHOOSE k \in hits : TRUE
                  IN  DictGet(vals, k)
                          \o Substituted(SubSeq(t, Len(Marker(k)) + 1, Len(t)), vals)

\* The paragraph lists the specification calls reachable, as pairs
\* <<texts before, texts after>> of two buffers of the same shape.
SameShape(b1, b2) ==
    /\ Len(b1.body) = Len(b2.body)
    /\ Len(b1.sections) = Len(b2.sections)
    /\ \A s \in 1..Len(b1.sections) :
           /\ Len(b1.sections[s].header) = Len(b2.sections[s].header)
           /\ Len(b1.sections[s].footer) = Len(b2.sections[s].footer)
    /\ Len(b1.tables) = Len(b2.tables)
    /\ \A t \in 1..Len(b1.tables) :
           /\ Len(b1.tables[t]) = Len(b2.tables[t])
           /\ \A r \in 1..Len(b1.tables[t]) :
                  /\ Len(b1.tables[t][r]) = Len(b2.tables[t][r])
                  /\ \A c \in 1..Len(b1.tables[t][r]) :
                         /\ Len(b1.tables[t][r][c].paragraphs)
                                = Len(b2.tables[t][r][c].paragraphs)
                         /\ b1.tables[t][r][c].nested = b2.tables[t][r][c].nested
ReachablePairs(b1, b2) ==
    {<<b1.body[i], b2.body[i]>> : i \in 1..Len(b1.body)}
    \cup UNION {{<<b1.sections[s].header[i], b2.sections[s].header[i]>> :
                    i \in 1..Len(b1.sections[s].header)} : s \in 1..Len(b1.sections)}
    \cup UNION {{<<b1.sections[s].footer[i], b2.sections[s].footer[i]>> :
                    i \in 1..Len(b1.sections[s].footer)} : s \in 1..Len(b1.sections)}
    \cup UNION {UNION {UNION {
             {<<b1.tables[t][r][c].paragraphs[i], b2.tables[t][r][c].paragraphs[i]>> :
                 i \in 1..Len(b1.tables[t][r][c].paragraphs)} :
             c \in 1..Len(b1.tables[t][r])} :
             r \in 1..Len(b1.tables[t])} :
             t \in 1..Len(b1.tables)}

C6_SecondFillNoOp ==
    fpc = "refilled" =>
        /\ refilled.status = "ok"
        /\ SameShape(filled.output, refilled.output)
        /\ \A p \in ReachablePairs(filled.output, refilled.output) :
               Clean(p[1], values) => p[2] = p[1]
        /\ (\A p \in ReachablePairs(filled.output, refilled.output) :
               Clean(p[1], values)) => refilled.output = filled.output

C6_Witness ==
    /\ fpc = "refilled"
    /\ filled.output # template_bytes
    /\ ReachablePairs(filled.output, refilled.output) # {}
    /\ \A p \in ReachablePairs(filled.output, refilled.output) : Clean(p[1], values)
    /\ refilled.output = filled.output

(***************************************************************************)
(* extract_text                                                            *)
(***************************************************************************)
\* str.lower(), on the letters of the extensions of the model.
NoLower(ext) == ext
LowerChar(c) ==
    CASE c = "D" -> "d" [] c = "O" -> "o" [] c = "C" -> "c" [] c = "X" -> "x"
      [] c = "P" -> "p" [] c = "F" -> "f" [] OTHER -> c
lower(ext) == [i \in 1..Len(ext) |-> LowerChar(ext[i])]

\* sep.join(items)
RECURSIVE str_join(_, _)
str_join(sep, items) ==
    IF items = <<>> THEN <<>>
    ELSE IF Len(items) = 1 THEN items[1]
    ELSE items[1] \o sep \o str_join(sep, Tail(items))

\* filter(None, paragraphs): the strings that are not empty.
KeepAll(items) == items
filter_none(items) == SelectSeq(items, LAMBDA t : t # <<>>)

\* cell.text: the cell's own paragraphs, joined by line breaks.
CellText(cell) == str_join(<<NL>>, cell.paragraphs)

\* Lines 29-32: the loops append every cell's text, table by table, row by
\* row, cell by cell.
RECURSIVE AppendCells(_, _)
AppendCells(paragraphs, cells) ==
    IF cells = <<>> THEN paragraphs
    ELSE AppendCells(Append(paragraphs, CellText(Head(cells))), Tail(cells))
RECURSIVE AppendRows(_, _)
AppendRows(paragraphs, rows) ==
    IF rows = <<>> THEN paragraphs
    ELSE AppendRows(AppendCells(paragraphs, Head(rows)), Tail(rows))
RECURSIVE AppendTables(_, _)
AppendTables(paragraphs, tables) ==
    IF tables = <<>> THEN paragraphs
    ELSE AppendTables(AppendRows(paragraphs, Head(tables)), Tail(tables))

\* Lines 25-34.
ExtractDocx(buf) ==
    LET paragraphs == AppendTables(buf.body, buf.tables)
    IN  str_join(<<NL>>, filter_none(paragraphs))

\* Lines 40-45: page.extract_text() or "".
PageText(page) == IF page.has_text THEN page.text ELSE <<>>
ExtractPdf(buf) ==
    str_join(<<NL>>, [i \in 1..Len(buf.pages) |-> PageText(buf.pages[i])])

DOCX == <<"d", "o", "c", "x">>
PDF == <<"p", "d", "f">>

\* The call's outcome: the text, or the exception raised; read tells
\* whether file_buffer.seek(0) ran.
extract_text(buf, ext, Doc, Pdf) ==
    LET e == lower(ext) IN
    IF e = DOCX THEN
        IF Doc = "None" THEN [status |-> "ImportError", read |-> FALSE]
        ELSE IF buf.fmt # "docx" THEN [status |-> "ReadError", read |-> TRUE]
        ELSE [status |-> "ok", read |-> TRUE, text |-> ExtractDocx(buf)]
    ELSE IF e = PDF THEN
        IF Pdf = "None" THEN [status |-> "ImportError", read |-> FALSE]
        ELSE IF buf.fmt # "pdf" THEN [status |-> "ReadError", read |-> TRUE]
        ELSE [status |-> "ok", read |-> TRUE, text |-> ExtractPdf(buf)]
    ELSE [status |-> "ValueError", read |-> FALSE]

(***************************************************************************)
(* The extractor's specification: a DOCX or PDF buffer is put together and *)
(* extract_text is called on it with some extension.                       *)
(***************************************************************************)
EmptyPdf == [fmt |-> "pdf", pages |-> <<>>]
FileTexts == {<<>>, <<"A">>, <<"B">>}
Pages == {[has_text |-> FALSE, text |-> <<>>], [has_text |-> TRUE, text |-> <<"A">>]}
Extensions ==
    {DOCX, <<"D", "O", "C", "X">>, <<"D", "o", "c", "x">>, PDF, <<"P", "D", "F">>,
     <<"x", "l", "s", "x">>, <<"d", "o", "c">>, <<>>}

InitExtract ==
    /\ ParseIdle
    /\ ReplaceIdle
    /\ FillIdle
    /\ Document \in {"loaded", "None"}
    /\ PyPDF2 \in {"loaded", "None"}
    /\ file_buffer \in {EmptyDocx, EmptyPdf}
    /\ b_items = 0
    /\ extension = <<>>
    /\ extracted = [status |-> "none"]
    /\ xpc = "edit"
    /\ PageIdle

Putting(fmt) == xpc = "edit" /\ b_items < MaxItems /\ file_buffer.fmt = fmt
Put(buf) ==
    /\ file_buffer' = buf
    /\ b_items' = b_items + 1
    /\ UNCHANGED <<extension, extracted, xpc, globalVars, outsideExtract>>

PutBodyParagraph ==
    Putting("docx") /\ \E t \in FileTexts : Put(WithBody(file_buffer, t))
PutHeaderParagraph ==
    Putting("docx") /\ \E t \in FileTexts : Put(WithHeader(file_buffer, t))
PutTable ==
    Putting("docx") /\ \E t \in FileTexts : Put(WithTable(file_buffer, t))
PutRow ==
    /\ Putting("docx") /\ file_buffer.tables # <<>>
    /\ \E t \in FileTexts : Put(WithRow(file_buffer, t))
PutCell ==
    /\ Putting("docx") /\ file_buffer.tables # <<>>
    /\ \E t \in FileTexts : Put(WithCell(file_buffer, t))
PutCellParagraph ==
    /\ Putting("docx") /\ file_buffer.tables # <<>>
    /\ \E t \in FileTexts : Put(WithCellParagraph(file_buffer, t))
PutNestedParagraph ==
    /\ Putting("docx") /\ file_buffer.tables # <<>>
    /\ \E t \in FileTexts : Put(WithNested(file_buffer, t))
PutPage ==
    /\ Putting("pdf")
    /\ \E pg \in Pages : Put([file_buffer EXCEPT !.pages = Append(@, pg)])

Extract ==
    /\ xpc = "edit"
    /\ \E ext \in Extensions :
           /\ extension' = ext
           /\ extracted' = extract_text(file_buffer, ext, Document, PyPDF2)
    /\ xpc' = "extracted"
    /\ UNCHANGED <<file_buffer, b_items, globalVars, outsideExtract>>

NextExtract ==
    \/ PutBodyParagraph \/ PutHeaderParagraph \/ PutTable \/ PutRow \/ PutCell
    \/ PutCellParagraph \/ PutNestedParagraph \/ PutPage \/ Extract

SpecExtract == InitExtract /\ [][NextExtract]_vars

(***************************************************************************)
(* What the specification says of the extractor.                           *)
(***************************************************************************)
\* A sequence of sequences, end to end.
RECURSIVE Flat(_)
Flat(ss) == IF ss = <<>> THEN <<>> ELSE Head(ss) \o Flat(Tail(ss))

\* The texts the specification lists: every body paragraph in order, then
\* every cell of every table, the tables in order, each row by row.
TextOfCell(cell) ==
    Flat([i \in 1..Len(cell.paragraphs) |->
              IF i = 1 THEN cell.paragraphs[i] ELSE <<NL>> \o cell.paragraphs[i]])
ListedTexts(buf) ==
    buf.body
    \o Flat([t \in 1..Len(buf.tables) |->
                Flat([r \in 1..Len(buf.tables[t]) |->
                         [c \in 1..Len(buf.tables[t][r]) |->
                              TextOfCell(buf.tables[t][r][c])]])])
\* The texts that are not empty, each after the first led by a line break.
JoinedNonEmpty(texts) ==
    LET kept == SelectSeq(texts, LAMBDA t : Len(t) > 0)
    IN  Flat([i \in 1..Len(kept) |-> IF i = 1 THEN kept[i] ELSE <<NL>> \o kept[i]])

\* The extension is the word, whatever the case of its letters.
CasePairs ==
    {<<"d", "D">>, <<"o", "O">>, <<"c", "C">>, <<"x", "X">>, <<"p", "P">>, <<"f", "F">>}
IsWord(ext, word) ==
    /\ Len(ext) = Len(word)
    /\ \A i \in 1..Len(word) : ext[i] = word[i] \/ <<word[i], ext[i]>> \in CasePairs

\* C8: extract_text(buffer, "docx") returns the texts of the body
\* paragraphs in order, then of the table cells (tables in order, row by
\* row), the empty ones removed, joined by single line breaks.
C8_DocxTextInOrder ==
    (xpc = "extracted" /\ IsWord(extension, DOCX)
        /\ Document = "loaded" /\ file_buffer.fmt = "docx")
    => /\ extracted.status = "ok"
       /\ extracted.text = JoinedNonEmpty(ListedTexts(file_buffer))

\* One paragraph "A" and a 1x1 table with cell text "B" give "A\nB".
C8_Witness ==
    /\ xpc = "extracted"
    /\ extension = DOCX
    /\ file_buffer.fmt = "docx"
    /\ file_buffer.body = <<<<"A">>>>
    /\ file_buffer.tables = <<<<<<[paragraphs |-> <<<<"B">>>>, nested |-> <<>>]>>>>>>
    /\ extracted.status = "ok"
    /\ extracted.text = <<"A", NL, "B">>

\* C9: an extension that is neither "docx" nor "pdf", whatever its case,
\* raises ValueError without the buffer being read, the dependencies loaded
\* or not; "docx" with Document missing, and "pdf" with PyPDF2 missing,
\* raise ImportError.
C9_UnsupportedOrMissing ==
    xpc = "extracted" =>
        /\ (~IsWord(extension, DOCX) /\ ~IsWord(extension, PDF))
               => (extracted.status = "ValueError" /\ ~extracted.read)
        /\ (IsWord(extension, DOCX) /\ Document = "None")
               => extracted.status = "ImportError"
        /\ (IsWord(extension, PDF) /\ PyPDF2 = "None")
               => extracted.status = "ImportError"

C9_Witness ==
    /\ xpc = "extracted"
    /\ extension = <<"x", "l", "s", "x">>
    /\ Document = "None" /\ PyPDF2 = "None"
    /\ extracted.status = "ValueError"

(***************************************************************************)
(* The page script, lines 137-207: one run per interaction.                *)
(***************************************************************************)
\* Path(name).suffix.lstrip(".").lower()
RECURSIVE lstrip_dot(_)
lstrip_dot(s) == IF s # <<>> /\ Head(s) = "." THEN lstrip_dot(Tail(s)) ELSE s
suffix_extension(suffix) == lower(lstrip_dot(suffix))

\* Line 178: the condition under which the template is filled.
ShouldFillAnyTemplate(vals, template_ext) == vals # <<>>
ShouldFill(vals, template_ext) == vals # <<>> /\ template_ext = DOCX

\* The files of the model: what the uploader accepts (type=["docx", "pdf"])
\* with the bytes of a DOCX or of a PDF behind either name.
Suffixes == {<<".", "d", "o", "c", "x">>, <<".", "D", "O", "C", "X">>, <<".", "p", "d", "f">>}
TemplateBuffers ==
    {WithBody(EmptyDocx, <<"{", "{", "a", "}", "}">>),
     [fmt |-> "pdf", pages |-> <<[has_text |-> TRUE, text |-> <<"{", "{", "a", "}", "}">>]>>]}
BaseBuffers ==
    {WithBody(EmptyDocx, <<"a", ":", "b">>),
     WithBody(EmptyDocx, <<"#", "a", ":", "b">>),
     EmptyDocx,
     [fmt |-> "pdf", pages |-> <<[has_text |-> TRUE, text |-> <<"a", ":", "b">>]>>],
     [fmt |-> "pdf", pages |-> <<[has_text |-> FALSE, text |-> <<>>]>>]}
Files(buffers) ==
    {[present |-> TRUE, suffix |-> sfx, bytes |-> b] : sfx \in Suffixes, b \in buffers}

InitPage ==
    /\ ParseIdle
    /\ ReplaceIdle
    /\ FillIdle
    /\ ExtractIdle
    /\ Document \in {"loaded", "None"}
    /\ PyPDF2 \in {"loaded", "None"}
    /\ PageIdle

\* An interaction starts a new run: nothing of the last run stays on the page.
Rerun ==
    /\ template_extension' = <<>>
    /\ base_extension' = <<>>
    /\ base_outcome' = NoResult
    /\ base_text' = <<>>
    /\ values' = <<>>
    /\ fill_calls' = 0
    /\ fill_outcome' = NoResult
    /\ filled_template' = NoResult
    /\ download' = NoResult
    /\ messages' = {}
    /\ pc' = "start"
    /\ UNCHANGED outsidePage

UploadTemplate ==
    /\ pc = "idle"
    /\ \E f \in Files(TemplateBuffers) \cup {NoFile} :
           f # template_upload /\ template_upload' = f
    /\ UNCHANGED base_upload
    /\ Rerun

UploadBase ==
    /\ pc = "idle"
    /\ \E f \in Files(BaseBuffers) \cup {NoFile} :
           f # base_upload /\ base_upload' = f
    /\ UNCHANGED template_upload
    /\ Rerun

\* Lines 137-147.
Start ==
    /\ pc = "start"
    /\ IF template_upload.present /\ base_upload.present
       THEN /\ template_extension' = suffix_extension(template_upload.suffix)
            /\ base_extension' = suffix_extension(base_upload.suffix)
            /\ pc' = "extract"
       ELSE /\ UNCHANGED <<template_extension, base_extension>>
            /\ pc' = "idle"
    /\ UNCHANGED <<template_upload, base_upload, base_outcome, base_text, values,
                   fill_calls, fill_outcome, filled_template, download, messages,
                   outsidePage>>

\* Lines 149-168.
ExtractBase ==
    /\ pc = "extract"
    /\ LET r == extract_text(base_upload.bytes, base_extension, Document, PyPDF2)
           text == IF r.status = "ok" THEN r.text ELSE <<>>
       IN  /\ base_outcome' = r
           /\ base_text' = text
           /\ messages' =
                  messages
                  \cup (IF r.status = "ImportError" THEN {"error: base dependency"}
                        ELSE IF r.status # "ok" THEN {"error: base read"} ELSE {})
                  \cup (IF text # <<>> THEN {"preview"} ELSE {})
    /\ pc' = "parse"
    /\ UNCHANGED <<template_upload, base_upload, template_extension, base_extension,
                   values, fill_calls, fill_outcome, filled_template, download,
                   outsidePage>>

\* Lines 170-175.
ParseBase ==
    /\ pc = "parse"
    /\ values' = parse_key_values(base_text)
    /\ messages' =
           messages \cup (IF parse_key_values(base_text) = <<>>
                          THEN {"warning: no pairs"} ELSE {})
    /\ pc' = "fill"
    /\ UNCHANGED <<template_upload, base_upload, template_extension, base_extension,
                   base_outcome, base_text, fill_calls, fill_outcome,
                   filled_template, download, outsidePage>>

\* Lines 177-189.
FillStep ==
    /\ pc = "fill"
    /\ IF ShouldFill(values, template_extension)
       THEN LET r == fill_template_with_values(template_upload.bytes, values, Document)
            IN  /\ fill_calls' = fill_calls + 1
                /\ fill_outcome' = r
                /\ filled_template' = IF r.status = "ok" THEN r ELSE NoResult
                /\ messages' =
                       messages
                       \cup (IF r.status = "ImportError" THEN {"error: template dependency"}
                             ELSE IF r.status # "ok" THEN {"error: fill"} ELSE {})
       ELSE UNCHANGED <<fill_calls, fill_outcome, filled_template, messages>>
    /\ pc' = "offer"
    /\ UNCHANGED <<template_upload, base_upload, template_extension, base_extension,
                   base_outcome, base_text, values, download, outsidePage>>

\* Lines 191-207.
Offer ==
    /\ pc = "offer"
    /\ download' = IF filled_template # NoResult
                   THEN [status |-> "offered", data |-> filled_template.output,
                         file_name |-> "template-preenchido.docx"]
                   ELSE NoResult
    /\ messages' =
           messages
           \cup (IF template_extension # DOCX THEN {"info: only DOCX templates"} ELSE {})
           \cup (IF filled_template # NoResult THEN {"success"} ELSE {})
    /\ pc' = "idle"
    /\ UNCHANGED <<template_upload, base_upload, template_extension, base_extension,
                   base_outcome, base_text, values, fill_calls, fill_outcome,
                   filled_template, outsidePage>>

NextPage ==
    UploadTemplate \/ UploadBase \/ Start \/ ExtractBase \/ ParseBase \/ FillStep \/ Offer

SpecPage == InitPage /\ [][NextPage]_vars

(***************************************************************************)
(* What the specification says of the page.                                *)
(***************************************************************************)
TemplateIs(word) ==
    /\ template_upload.present
    /\ template_upload.suffix # <<>>
    /\ IsWord(Tail(template_upload.suffix), word)

\* C10: a file is offered for download only if the template is DOCX, the
\* parsed dict is not empty and fill returned; when the extraction of the
\* base fails its text is empty, so is the dict, and fill is not called;
\* when the template is PDF fill is not called and no file is produced.
C10_DownloadGated ==
    /\ download # NoResult =>
           /\ TemplateIs(DOCX)
           /\ values # <<>>
           /\ fill_outcome.status = "ok"
           /\ download.data = fill_outcome.output
    /\ base_outcome.status \notin {"none", "ok"} =>
           /\ base_text = <<>>
           /\ values = <<>>
           /\ fill_calls = 0
           /\ filled_template = NoResult
           /\ download = NoResult
    /\ TemplateIs(PDF) =>
           /\ fill_calls = 0
           /\ filled_template = NoResult
           /\ download = NoResult

C10_Witness ==
    /\ pc = "idle"
    /\ base_outcome.status = "ok"
    /\ values = <<<< <<"a">>, <<"b">> >>>>
    /\ fill_calls = 1
    /\ download # NoResult
    /\ download.data = WithBody(EmptyDocx, <<"b">>)

====
